---------------------------- MODULE Spec2Model ----------------------------
(***************************************************************************)
(* Dialogue session and intent resolver of the chatbot                     *)
(* (src/chatbot/mock_chatbot.py).                                          *)
(*                                                                         *)
(* A Python str is modelled as a sequence of one-character strings, so     *)
(* that lower(), strip(), split(), the `in` substring test, startswith(),  *)
(* re.search() and capitalize() are computed character by character.       *)
(***************************************************************************)
EXTENDS Integers, Sequences, FiniteSets, TLC

VARIABLES
    history,    \* history[s]: MockChatbot.conversation_history of session s
    context,    \* context[s]: MockChatbot.context of session s (a dict)
    call,       \* the last call made: [op, session, message]
    reply,      \* the value returned by the last generate_response call
    steps,      \* number of calls made so far (bounded by MaxSteps)
    processed,  \* processed[s]: generate_response calls on s since construction or its last reset
    text,       \* the argument of a stand-alone get_intent call
    resolved,   \* the value returned by that get_intent call
    args,       \* the arguments of a call of calculate_confidence or of a metric
    result,     \* the value returned by that call
    last_response  \* last_response[s]: Conversation.last_response of the wrapper of session s

vars == <<history, context, call, reply, steps, processed, text, resolved, args, result,
         last_response>>

(***************************************************************************)
(* Characters and the str methods the program uses                         *)
(***************************************************************************)
UpperLetters == <<"A","B","C","D","E","F","G","H","I","J","K","L","M","N","O","P","Q","R","S","T","U","V","W","X","Y","Z">>

LowerLetters == <<"a","b","c","d","e","f","g","h","i","j","k","l","m","n","o","p","q","r","s","t","u","v","w","x","y","z">>

DigitChars == {"0", "1", "2", "3", "4", "5", "6", "7", "8", "9"}

Range(f) == {f[i] : i \in DOMAIN f}

\* str.isspace for one character
IsSpace(c) == c \in {" ", "\t", "\n"}

char_lower(c) ==
    IF c \in Range(UpperLetters)
    THEN LowerLetters[CHOOSE i \in 1..26 : UpperLetters[i] = c]
    ELSE c

char_upper(c) ==
    IF c \in Range(LowerLetters)
    THEN UpperLetters[CHOOSE i \in 1..26 : LowerLetters[i] = c]
    ELSE c

\* the text is used as it is
str_lower_unchanged(s) == s

\* str.lower()
str_lower(s) == [i \in 1..Len(s) |-> char_lower(s[i])]

\* str.strip(): drop the leading and the trailing whitespace
str_strip(s) ==
    LET keep == {i \in 1..Len(s) : ~IsSpace(s[i])}
    IN  IF keep = {} THEN <<>>
        ELSE LET first == CHOOSE i \in keep : \A j \in keep : i <= j
                 last  == CHOOSE i \in keep : \A j \in keep : j <= i
             IN  SubSeq(s, first, last)

\* len(s.split()): the number of maximal runs of non-whitespace characters
str_split_len(s) ==
    Cardinality({i \in 1..Len(s) : ~IsSpace(s[i]) /\ (i = 1 \/ IsSpace(s[i-1]))})

\* s[i:].startswith(sub), i counted from 1
MatchAt(s, sub, i) ==
    /\ i + Len(sub) - 1 <= Len(s)
    /\ \A j \in 1..Len(sub) : s[i + j - 1] = sub[j]

\* s.startswith(sub)
str_startswith(s, sub) == MatchAt(s, sub, 1)

\* sub in s
str_in(sub, s) == \E i \in 1..(Len(s) - Len(sub) + 1) : MatchAt(s, sub, i)

\* s.split(sub)[0]: the part of s before the first occurrence of sub (s itself if none)
str_split_first(s, sub) ==
    IF str_in(sub, s)
    THEN LET i == CHOOSE k \in 1..(Len(s) - Len(sub) + 1) :
                      /\ MatchAt(s, sub, k)
                      /\ \A j \in 1..(k - 1) : ~MatchAt(s, sub, j)
         IN  SubSeq(s, 1, i - 1)
    ELSE s

\* any(sub in s for sub in subs)
any_in(subs, s) == \E k \in DOMAIN subs : str_in(subs[k], s)

\* any(s.startswith(sub) for sub in subs)
any_startswith(s, subs) == \E k \in DOMAIN subs : str_startswith(s, subs[k])

\* the regular expression class \w on the characters of the model
IsWordChar(c) ==
    c \in Range(LowerLetters) \cup Range(UpperLetters) \cup DigitChars \cup {"_"}

\* re.search(prefix + r"(\w+)", s): the match positions, i.e. the places where
\* the literal prefix is followed by at least one word character
re_matches(prefix, s) ==
    {i \in 1..Len(s) : MatchAt(s, prefix, i)
                       /\ i + Len(prefix) <= Len(s)
                       /\ IsWordChar(s[i + Len(prefix)])}

\* match.group(1) of the leftmost match: the longest run of word characters after the prefix
re_group1(prefix, s) ==
    LET i     == CHOOSE k \in re_matches(prefix, s) : \A j \in re_matches(prefix, s) : k <= j
        start == i + Len(prefix)
        stop  == CHOOSE e \in start..Len(s) :
                     /\ \A j \in start..e : IsWordChar(s[j])
                     /\ (e = Len(s) \/ ~IsWordChar(s[e + 1]))
    IN  SubSeq(s, start, stop)

\* str.capitalize(): first character upper-cased, all the others lower-cased
str_capitalize(s) ==
    [i \in 1..Len(s) |-> IF i = 1 THEN char_upper(s[i]) ELSE char_lower(s[i])]

(***************************************************************************)
(* MockChatbot.__init__: keyword lists and canned replies                  *)
(***************************************************************************)
intents_name_query == << <<"m","y"," ","n","a","m","e">>, <<"w","h","a","t","'","s"," ","m","y"," ","n","a","m","e">>, <<"w","h","o"," ","a","m"," ","i">> >>

intents_weather == << <<"w","e","a","t","h","e","r">>, <<"f","o","r","e","c","a","s","t">>, <<"t","e","m","p","e","r","a","t","u","r","e">>, <<"r","a","i","n">> >>

intents_booking == << <<"b","o","o","k">>, <<"s","c","h","e","d","u","l","e">>, <<"a","p","p","o","i","n","t","m","e","n","t">>, <<"m","e","e","t","i","n","g">> >>

intents_status == << <<"s","t","a","t","u","s">>, <<"u","p","d","a","t","e">>, <<"p","r","o","g","r","e","s","s">> >>

intents_cancel == << <<"c","a","n","c","e","l">>, <<"s","t","o","p">>, <<"a","b","o","r","t">> >>

goodbye_words == << <<"b","y","e">>, <<"f","a","r","e","w","e","l","l">>, <<"s","e","e"," ","y","o","u">> >>

question_words == << <<"w","h","a","t">>, <<"h","o","w">>, <<"w","h","y">>, <<"w","h","e","n">>, <<"w","h","e","r","e">>, <<"w","h","o">> >>

\* "Hello! How can I help you today?"
response_greeting == <<"H","e","l","l","o","!"," ","H","o","w"," ","c","a","n"," ","I"," ","h","e","l","p"," ","y","o","u"," ","t","o","d","a","y","?">>

\* "Goodbye! Have a great day!"
response_goodbye == <<"G","o","o","d","b","y","e","!"," ","H","a","v","e"," ","a"," ","g","r","e","a","t"," ","d","a","y","!">>

\* "You're welcome! Happy to help!"
response_thanks == <<"Y","o","u","'","r","e"," ","w","e","l","c","o","m","e","!"," ","H","a","p","p","y"," ","t","o"," ","h","e","l","p","!">>

\* "I can help you with bookings, questions, and general inquiries. What do you need?"
response_help == <<"I"," ","c","a","n"," ","h","e","l","p"," ","y","o","u"," ","w","i","t","h"," ","b","o","o","k","i","n","g","s",","," ","q","u","e","s","t","i","o","n","s",","," ","a","n","d"," ","g","e","n","e","r","a","l"," ","i","n","q","u","i","r","i","e","s","."," ","W","h","a","t"," ","d","o"," ","y","o","u"," ","n","e","e","d","?">>

\* "I'd be happy to help you book. When would you like to schedule?"
response_booking == <<"I","'","d"," ","b","e"," ","h","a","p","p","y"," ","t","o"," ","h","e","l","p"," ","y","o","u"," ","b","o","o","k","."," ","W","h","e","n"," ","w","o","u","l","d"," ","y","o","u"," ","l","i","k","e"," ","t","o"," ","s","c","h","e","d","u","l","e","?">>

\* "Let me check the status for you."
response_status == <<"L","e","t"," ","m","e"," ","c","h","e","c","k"," ","t","h","e"," ","s","t","a","t","u","s"," ","f","o","r"," ","y","o","u",".">>

\* "Your request has been cancelled."
response_cancel == <<"Y","o","u","r"," ","r","e","q","u","e","s","t"," ","h","a","s"," ","b","e","e","n"," ","c","a","n","c","e","l","l","e","d",".">>

\* "That's a great question. Let me help you with that."
response_question == <<"T","h","a","t","'","s"," ","a"," ","g","r","e","a","t"," ","q","u","e","s","t","i","o","n","."," ","L","e","t"," ","m","e"," ","h","e","l","p"," ","y","o","u"," ","w","i","t","h"," ","t","h","a","t",".">>

\* "The weather today is sunny with a high of 25°C."
response_weather == <<"T","h","e"," ","w","e","a","t","h","e","r"," ","t","o","d","a","y"," ","i","s"," ","s","u","n","n","y"," ","w","i","t","h"," ","a"," ","h","i","g","h"," ","o","f"," ","2","5","°","C",".">>

\* "I'm not sure I understand. Could you rephrase that?"
response_unknown == <<"I","'","m"," ","n","o","t"," ","s","u","r","e"," ","I"," ","u","n","d","e","r","s","t","a","n","d","."," ","C","o","u","l","d"," ","y","o","u"," ","r","e","p","h","r","a","s","e"," ","t","h","a","t","?">>

(***************************************************************************)
(* MockChatbot.get_intent: the rules, each on message.lower().strip()      *)
(***************************************************************************)
\* "my name is" in m or ("i am" in m and len(m.split()) <= 3) or "i'm" in m or "call me" in m
rule_name_introduction(m) ==
    \/ str_in(<<"m","y"," ","n","a","m","e"," ","i","s">>, m)
    \/ (str_in(<<"i"," ","a","m">>, m) /\ str_split_len(m) <= 3)
    \/ str_in(<<"i","'","m">>, m)
    \/ str_in(<<"c","a","l","l"," ","m","e">>, m)

rule_name_query(m) == any_in(intents_name_query, m)

\* "thank" in m or ("thanks" in m and "help" not in m.split("thanks")[0]) or "appreciate" in m
rule_thanks_no_thank(m) ==
    \/ (str_in(<<"t","h","a","n","k","s">>, m)
        /\ ~str_in(<<"h","e","l","p">>, str_split_first(m, <<"t","h","a","n","k","s">>)))
    \/ str_in(<<"a","p","p","r","e","c","i","a","t","e">>, m)

rule_thanks(m) ==
    \/ str_in(<<"t","h","a","n","k">>, m)
    \/ (str_in(<<"t","h","a","n","k","s">>, m)
        /\ ~str_in(<<"h","e","l","p">>, str_split_first(m, <<"t","h","a","n","k","s">>)))
    \/ str_in(<<"a","p","p","r","e","c","i","a","t","e">>, m)

\* ("help" in m or "assist" in m or "support" in m) and "thank" not in m
rule_help(m) ==
    /\ \/ str_in(<<"h","e","l","p">>, m)
       \/ str_in(<<"a","s","s","i","s","t">>, m)
       \/ str_in(<<"s","u","p","p","o","r","t">>, m)
    /\ ~str_in(<<"t","h","a","n","k">>, m)

\* the two goodbye tests of lines 76-79
rule_goodbye(m) ==
    \/ /\ str_startswith(m, <<"g","o","o","d">>)
       /\ (str_in(<<"b","y","e">>, m) \/ m = <<"g","o","o","d","b","y","e">>)
    \/ any_in(goodbye_words, m)

rule_weather(m) == any_in(intents_weather, m)

rule_booking(m) == any_in(intents_booking, m)

\* the two greeting tests of lines 90-93
rule_greeting(m) ==
    \/ str_startswith(m, <<"h","i">>)
    \/ str_startswith(m, <<"h","e","l","l","o">>)
    \/ str_startswith(m, <<"h","e","y">>)
    \/ /\ str_startswith(m, <<"g","o","o","d">>)
       /\ \/ str_in(<<"m","o","r","n","i","n","g">>, m)
          \/ str_in(<<"e","v","e","n","i","n","g">>, m)
          \/ str_in(<<"a","f","t","e","r","n","o","o","n">>, m)

rule_question(m) == any_startswith(m, question_words)

rule_status(m) == any_in(intents_status, m)

rule_cancel(m) == any_in(intents_cancel, m)

\* lines 99-104: the loop over ["status", "cancel"], then the default
other_intents_no_default(m) ==
    IF rule_status(m) THEN "status"
    ELSE IF rule_cancel(m) THEN "cancel"
    ELSE "none"

other_intents(m) ==
    IF rule_status(m) THEN "status"
    ELSE IF rule_cancel(m) THEN "cancel"
    ELSE "unknown"

\* the cascade with the booking test moved before the weather test
get_intent_booking_first(message) ==
    LET m == str_strip(str_lower(message))
    IN  IF rule_name_introduction(m) THEN "name_introduction"
        ELSE IF rule_name_query(m) THEN "name_query"
        ELSE IF rule_thanks(m) THEN "thanks"
        ELSE IF rule_help(m) THEN "help"
        ELSE IF rule_goodbye(m) THEN "goodbye"
        ELSE IF rule_booking(m) THEN "booking"
        ELSE IF rule_weather(m) THEN "weather"
        ELSE IF rule_greeting(m) THEN "greeting"
        ELSE IF rule_question(m) THEN "question"
        ELSE other_intents(m)

\* the cascade with the question test moved before the weather test
get_intent_question_first(message) ==
    LET m == str_strip(str_lower(message))
    IN  IF rule_name_introduction(m) THEN "name_introduction"
        ELSE IF rule_name_query(m) THEN "name_query"
        ELSE IF rule_thanks(m) THEN "thanks"
        ELSE IF rule_help(m) THEN "help"
        ELSE IF rule_goodbye(m) THEN "goodbye"
        ELSE IF rule_question(m) THEN "question"
        ELSE IF rule_weather(m) THEN "weather"
        ELSE IF rule_booking(m) THEN "booking"
        ELSE IF rule_greeting(m) THEN "greeting"
        ELSE other_intents(m)

get_intent(message) ==
    LET m == str_strip(str_lower(message))
    IN  IF rule_name_introduction(m) THEN "name_introduction"
        ELSE IF rule_name_query(m) THEN "name_query"
        ELSE IF rule_thanks(m) THEN "thanks"
        ELSE IF rule_help(m) THEN "help"
        ELSE IF rule_goodbye(m) THEN "goodbye"
        ELSE IF rule_weather(m) THEN "weather"
        ELSE IF rule_booking(m) THEN "booking"
        ELSE IF rule_greeting(m) THEN "greeting"
        ELSE IF rule_question(m) THEN "question"
        ELSE other_intents(m)

(***************************************************************************)
(* MockChatbot.extract_name                                                *)
(***************************************************************************)
\* Optional[str]: None is modelled by the empty sequence, which no match returns
\* (a (\w+) group holds at least one character) and which `if name:` treats alike
None == <<>>

\* the literal part of each pattern; each is followed by the group (\w+)
patterns == << <<"m","y"," ","n","a","m","e"," ","i","s"," ">>, <<"i"," ","a","m"," ">>, <<"i","'","m"," ">>, <<"c","a","l","l"," ","m","e"," ">> >>

\* the pattern that matches first in the text wins, whatever its place in the list
extract_name_leftmost(message) ==
    LET s        == str_lower(message)
        matching == {k \in DOMAIN patterns : re_matches(patterns[k], s) # {}}
        at(k)    == CHOOSE i \in re_matches(patterns[k], s) :
                        \A j \in re_matches(patterns[k], s) : i <= j
    IN  IF matching = {} THEN None
        ELSE LET k == CHOOSE a \in matching : \A b \in matching : at(a) <= at(b)
             IN  str_capitalize(re_group1(patterns[k], s))

extract_name(message) ==
    LET s        == str_lower(message)
        matching == {k \in DOMAIN patterns : re_matches(patterns[k], s) # {}}
    IN  IF matching = {} THEN None
        ELSE LET k == CHOOSE a \in matching : \A b \in matching : a <= b
             IN  str_capitalize(re_group1(patterns[k], s))

(***************************************************************************)
(* The context dict                                                        *)
(***************************************************************************)
\* {}
empty_dict == [k \in {} |-> FALSE]

\* d[k] = v
dict_set(d, k, v) == (k :> v) @@ d

\* d.get(k, default)
dict_get(d, k, default) == IF k \in DOMAIN d THEN d[k] ELSE default

(***************************************************************************)
(* MockChatbot.generate_response                                           *)
(***************************************************************************)
time_indicators ==
    << <<"t","o","m","o","r","r","o","w">>, <<"t","o","d","a","y">>, <<"m","o","n","d","a","y">>, <<"t","u","e","s","d","a","y">>, <<"w","e","d","n","e","s","d","a","y">>,
       <<"t","h","u","r","s","d","a","y">>, <<"f","r","i","d","a","y">>, <<"s","a","t","u","r","d","a","y">>, <<"s","u","n","d","a","y">>, <<"p","m">>, <<"a","m">>,
       <<"m","o","r","n","i","n","g">>, <<"a","f","t","e","r","n","o","o","n">>, <<"e","v","e","n","i","n","g">>, <<"a","t"," ">>, <<" ","a","t">>, <<"1","p","m">>, <<"2","p","m">>,
       <<"3","p","m">>, <<"4","p","m">>, <<"5","p","m">>, <<"6","p","m">>, <<"7","p","m">>, <<"8","p","m">>, <<"9","p","m">>, <<"1","0","p","m">>, <<"1","1","p","m">>, <<"1","2","p","m">>,
       <<"1","a","m">>, <<"2","a","m">>, <<"3","a","m">>, <<"4","a","m">>, <<"5","a","m">>, <<"6","a","m">>, <<"7","a","m">>, <<"8","a","m">>, <<"9","a","m">>, <<"1","0","a","m">>, <<"1","1","a","m">>, <<"1","2","a","m">> >>

\* line 139: message.lower() (not stripped) starts with a question word
is_question(message) == any_startswith(str_lower(message), question_words)

\* line 132
in_booking_mode(ctx) == dict_get(ctx, "booking_started", FALSE)

\* the question-word test is left out
looks_like_time_ignores_question(ctx, message) ==
    /\ in_booking_mode(ctx)
    /\ any_in(time_indicators, str_lower(message))

\* line 140
looks_like_time(ctx, message) ==
    /\ in_booking_mode(ctx)
    /\ any_in(time_indicators, str_lower(message))
    /\ ~is_question(message)

\* lines 143-146
turn_intent(ctx, message) ==
    IF looks_like_time(ctx, message) THEN "booking_time" ELSE get_intent(message)

user_turn(message, intent) ==
    [role |-> "user", content |-> message, intent |-> intent]

assistant_turn_as_user(response, intent) ==
    [role |-> "user", content |-> response, intent |-> intent]

\* the assistant record does not carry the intent of the turn
assistant_turn_no_intent(response, intent) ==
    [role |-> "assistant", content |-> response, intent |-> "unknown"]

assistant_turn(response, intent) ==
    [role |-> "assistant", content |-> response, intent |-> intent]

\* f"Nice to meet you, {name}! How can I help you today?"
response_nice_to_meet(name) ==
    <<"N","i","c","e"," ","t","o"," ","m","e","e","t"," ","y","o","u",","," ">> \o name \o <<"!"," ","H","o","w"," ","c","a","n"," ","I"," ","h","e","l","p"," ","y","o","u"," ","t","o","d","a","y","?">>

\* "Nice to meet you! What's your name?"
response_ask_name == <<"N","i","c","e"," ","t","o"," ","m","e","e","t"," ","y","o","u","!"," ","W","h","a","t","'","s"," ","y","o","u","r"," ","n","a","m","e","?">>

\* f"Your name is {self.context['user_name']}!"
response_your_name(name) == <<"Y","o","u","r"," ","n","a","m","e"," ","i","s"," ">> \o name \o <<"!">>

\* "I don't know your name yet. What should I call you?"
response_no_name == <<"I"," ","d","o","n","'","t"," ","k","n","o","w"," ","y","o","u","r"," ","n","a","m","e"," ","y","e","t","."," ","W","h","a","t"," ","s","h","o","u","l","d"," ","I"," ","c","a","l","l"," ","y","o","u","?">>

\* "Great! Your booking is confirmed. You'll receive a confirmation email shortly."
response_confirmed == <<"G","r","e","a","t","!"," ","Y","o","u","r"," ","b","o","o","k","i","n","g"," ","i","s"," ","c","o","n","f","i","r","m","e","d","."," ","Y","o","u","'","l","l"," ","r","e","c","e","i","v","e"," ","a"," ","c","o","n","f","i","r","m","a","t","i","o","n"," ","e","m","a","i","l"," ","s","h","o","r","t","l","y",".">>

\* "I'd be happy to help you book. When would you like to schedule?"
response_schedule == <<"I","'","d"," ","b","e"," ","h","a","p","p","y"," ","t","o"," ","h","e","l","p"," ","y","o","u"," ","b","o","o","k","."," ","W","h","e","n"," ","w","o","u","l","d"," ","y","o","u"," ","l","i","k","e"," ","t","o"," ","s","c","h","e","d","u","l","e","?">>

\* "Please specify when you'd like to book (e.g., 'tomorrow at 2pm')"
response_specify == <<"P","l","e","a","s","e"," ","s","p","e","c","i","f","y"," ","w","h","e","n"," ","y","o","u","'","d"," ","l","i","k","e"," ","t","o"," ","b","o","o","k"," ","(","e",".","g",".",","," ","'","t","o","m","o","r","r","o","w"," ","a","t"," ","2","p","m","'",")">>

\* without a name the stored name is overwritten by the empty one
handle_name_introduction_forgets(ctx, message) ==
    LET name == extract_name(message)
    IN  IF name # None
        THEN [context  |-> dict_set(ctx, "user_name", name),
              response |-> response_nice_to_meet(name)]
        ELSE [context  |-> dict_set(ctx, "user_name", name),
              response |-> response_ask_name]

\* the name is stored only when none is stored yet
handle_name_introduction_keep_first(ctx, message) ==
    LET name == extract_name(message)
    IN  IF name # None
        THEN [context  |-> IF "user_name" \in DOMAIN ctx THEN ctx
                           ELSE dict_set(ctx, "user_name", name),
              response |-> response_nice_to_meet(name)]
        ELSE [context |-> ctx, response |-> response_ask_name]

\* lines 156-162
handle_name_introduction(ctx, message) ==
    LET name == extract_name(message)
    IN  IF name # None
        THEN [context  |-> dict_set(ctx, "user_name", name),
              response |-> response_nice_to_meet(name)]
        ELSE [context |-> ctx, response |-> response_ask_name]

\* the name is looked up under a key that is never written
handle_name_query_other_key(ctx) ==
    IF "name" \in DOMAIN ctx
    THEN [context |-> ctx, response |-> response_your_name(ctx["name"])]
    ELSE [context |-> ctx, response |-> response_no_name]

\* lines 165-169
handle_name_query(ctx) ==
    IF "user_name" \in DOMAIN ctx
    THEN [context |-> ctx, response |-> response_your_name(ctx["user_name"])]
    ELSE [context |-> ctx, response |-> response_no_name]

\* booking_started is left set
handle_booking_time_stays_started(ctx, message) ==
    [context  |-> dict_set(ctx, "booking_time", message),
     response |-> response_confirmed]

\* the booking_started key is deleted instead of being set to False
handle_booking_time_deletes_flag(ctx, message) ==
    [context  |-> [k \in (DOMAIN ctx \ {"booking_started"}) \cup {"booking_time"} |->
                       IF k = "booking_time" THEN message ELSE ctx[k]],
     response |-> response_confirmed]

\* lines 172-175
handle_booking_time(ctx, message) ==
    [context  |-> dict_set(dict_set(ctx, "booking_time", message),
                           "booking_started", FALSE),
     response |-> response_confirmed]

\* a repeated booking request ends the booking in progress
handle_booking_toggles(ctx) ==
    IF ~dict_get(ctx, "booking_started", FALSE)
    THEN [context  |-> dict_set(ctx, "booking_started", TRUE),
          response |-> response_schedule]
    ELSE [context  |-> dict_set(ctx, "booking_started", FALSE),
          response |-> response_specify]

\* a repeated booking request starts over: the flag is set again and the
\* scheduling prompt is returned
handle_booking_restarts(ctx) ==
    [context  |-> dict_set(ctx, "booking_started", TRUE),
     response |-> response_schedule]

\* starting a booking discards the time stored by an earlier one
handle_booking_clears_time(ctx) ==
    IF ~dict_get(ctx, "booking_started", FALSE)
    THEN [context  |-> dict_set(dict_set(ctx, "booking_time", <<>>),
                                "booking_started", TRUE),
          response |-> response_schedule]
    ELSE [context |-> ctx, response |-> response_specify]

\* the flag is written under another key than the one that is read
handle_booking_other_key(ctx) ==
    IF ~dict_get(ctx, "booking_started", FALSE)
    THEN [context  |-> dict_set(ctx, "booking_in_progress", TRUE),
          response |-> response_schedule]
    ELSE [context |-> ctx, response |-> response_specify]

\* lines 178-183
handle_booking(ctx) ==
    IF ~dict_get(ctx, "booking_started", FALSE)
    THEN [context  |-> dict_set(ctx, "booking_started", TRUE),
          response |-> response_schedule]
    ELSE [context |-> ctx, response |-> response_specify]

\* the dict self.responses
responses ==
    [greeting |-> response_greeting,
     goodbye  |-> response_goodbye,
     thanks   |-> response_thanks,
     help     |-> response_help,
     booking  |-> response_booking,
     status   |-> response_status,
     cancel   |-> response_cancel,
     question |-> response_question,
     weather  |-> response_weather,
     unknown  |-> response_unknown]

\* a table without the "unknown" entry, read with "" as the default
responses_get_no_unknown(intent) ==
    IF intent \in DOMAIN responses \ {"unknown"} THEN responses[intent] ELSE <<>>

\* line 191: self.responses.get(intent, self.responses["unknown"])
responses_get(intent) ==
    IF intent \in DOMAIN responses THEN responses[intent] ELSE responses["unknown"]

\* lines 155-191: the dispatch on the intent
dispatch(ctx, message, intent) ==
    CASE intent = "name_introduction" -> handle_name_introduction(ctx, message)
      [] intent = "name_query"        -> handle_name_query(ctx)
      [] intent = "booking_time"      -> handle_booking_time(ctx, message)
      [] intent = "booking"           -> handle_booking(ctx)
      [] intent = "weather"           -> [context |-> ctx, response |-> response_weather]
      [] OTHER                        -> [context |-> ctx, response |-> responses_get(intent)]

\* the whole method: the new context, the new history and the returned reply
generate_response(ctx, hist, message) ==
    LET intent == turn_intent(ctx, message)
        done   == dispatch(ctx, message, intent)
    IN  [context  |-> done.context,
         history  |-> hist \o << user_turn(message, intent),
                                 assistant_turn(done.response, intent) >>,
         response |-> done.response]

\* reset clears the history only
reset_keeps_context(ctx, hist) == [context |-> ctx, history |-> <<>>]

\* MockChatbot.reset
reset(ctx, hist) == [context |-> empty_dict, history |-> <<>>]

(***************************************************************************)
(* Sessions                                                                *)
(***************************************************************************)
Sessions == {"a", "b"}

\* every session reads and writes the same object
store_shared(all, s, v) == [t \in DOMAIN all |-> v]

\* __init__ gives each instance its own list and dict: a write through
\* session s changes the attribute of s only
store(all, s, v) == [all EXCEPT ![s] = v]

(***************************************************************************)
(* Bounds and inputs                                                       *)
(***************************************************************************)
MaxSteps == 3

MaxWords == 2

U_hello == <<"H","e","l","l","o">>

U_my_name_is_mira == <<"M","y"," ","n","a","m","e"," ","i","s"," ","M","i","r","a">>

U_call_me_bob == <<"C","a","l","l"," ","m","e"," ","B","o","b">>

U_call_me == <<"c","a","l","l"," ","m","e">>

U_whats_my_name == <<"W","h","a","t","'","s"," ","m","y"," ","n","a","m","e","?">>

U_book_a_meeting == <<"I"," ","w","a","n","t"," ","t","o"," ","b","o","o","k"," ","a"," ","m","e","e","t","i","n","g">>

U_tomorrow_at_2pm == <<"T","o","m","o","r","r","o","w"," ","a","t"," ","2","p","m">>

U_whats_the_weather == <<"W","h","a","t","'","s"," ","t","h","e"," ","w","e","a","t","h","e","r","?">>

U_i_need_help == <<"I"," ","n","e","e","d"," ","h","e","l","p">>

U_when_tomorrow == <<"W","h","e","n"," ","t","o","m","o","r","r","o","w","?">>

U_see_attached == <<"s","e","e"," ","a","t","t","a","c","h","e","d">>

U_empty == <<>>

U_blank == <<" "," "," ">>

Utterances ==
    {U_hello, U_my_name_is_mira, U_call_me_bob, U_call_me, U_whats_my_name,
     U_book_a_meeting, U_tomorrow_at_2pm, U_whats_the_weather, U_i_need_help,
     U_when_tomorrow, U_see_attached, U_empty, U_blank}

TwoSessionUtterances ==
    {U_my_name_is_mira, U_whats_my_name, U_book_a_meeting, U_tomorrow_at_2pm}

\* the pieces the inputs of get_intent are put together from
Tokens ==
    { <<"t","h","a","n","k","s">>, <<"T","h","a","n","k">>, <<"a","p","p","r","e","c","i","a","t","e">>, <<"h","e","l","p">>, <<"S","U","P","P","O","R","T">>, <<"a","s","s","i","s","t">>,
      <<"b","y","e">>, <<"g","o","o","d">>, <<"m","o","r","n","i","n","g">>, <<"w","e","a","t","h","e","r">>, <<"b","o","o","k">>, <<"H","i">>, <<"w","h","a","t">>,
      <<"s","t","a","t","u","s">>, <<"c","a","n","c","e","l">>, <<"m","y"," ","n","a","m","e">>, <<"m","y"," ","n","a","m","e"," ","i","s">>, <<"i","'","m">>, <<"i"," ","a","m">>,
      <<"c","a","l","l"," ","m","e">>, <<"s","e","e"," ","y","o","u">>, <<"s","t","o","p">>, <<"x","y","z">>, <<>> }

\* " ".join(ws)
RECURSIVE Join(_)
Join(ws) ==
    IF Len(ws) = 0 THEN <<>>
    ELSE IF Len(ws) = 1 THEN ws[1]
    ELSE ws[1] \o << " " >> \o Join(Tail(ws))

ResolveInputs ==
    UNION {{Join(ws) : ws \in [1..n -> Tokens]} : n \in 0..MaxWords}

(***************************************************************************)
(* State machine                                                           *)
(***************************************************************************)
NoCall == [op |-> "none", session |-> "a", message |-> <<>>]

Init ==
    /\ history = [s \in Sessions |-> <<>>]
    /\ context = [s \in Sessions |-> empty_dict]
    /\ call = NoCall
    /\ reply = <<>>
    /\ steps = 0
    /\ processed = [s \in Sessions |-> 0]
    /\ text = <<>>
    /\ resolved = "none"
    /\ args = <<>>
    /\ result = <<>>
    /\ last_response = [s \in Sessions |-> <<>>]

\* session s processes the utterance u
Process(s, u) ==
    /\ steps < MaxSteps
    /\ LET r == generate_response(context[s], history[s], u)
       IN  /\ history' = store(history, s, r.history)
           /\ context' = store(context, s, r.context)
           /\ reply' = r.response
    /\ call' = [op |-> "generate_response", session |-> s, message |-> u]
    /\ steps' = steps + 1
    /\ processed' = [processed EXCEPT ![s] = @ + 1]
    /\ UNCHANGED <<text, resolved, args, result, last_response>>

\* session s is reset
Reset(s) ==
    /\ steps < MaxSteps
    /\ LET r == reset(context[s], history[s])
       IN  /\ history' = store(history, s, r.history)
           /\ context' = store(context, s, r.context)
    /\ call' = [op |-> "reset", session |-> s, message |-> <<>>]
    /\ steps' = steps + 1
    /\ processed' = [processed EXCEPT ![s] = 0]
    /\ UNCHANGED <<reply, text, resolved, args, result, last_response>>

\* one session, every utterance
Next ==
    \/ \E u \in Utterances : Process("a", u)
    \/ Reset("a")

Spec == Init /\ [][Next]_vars

\* two sessions side by side
NextTwo ==
    \/ \E s \in Sessions : \E u \in TwoSessionUtterances : Process(s, u)
    \/ \E s \in Sessions : Reset(s)

SpecTwo == Init /\ [][NextTwo]_vars

\* a stand-alone call of get_intent on every input
InitResolve ==
    /\ history = [s \in Sessions |-> <<>>]
    /\ context = [s \in Sessions |-> empty_dict]
    /\ call = NoCall
    /\ reply = <<>>
    /\ steps = 0
    /\ processed = [s \in Sessions |-> 0]
    /\ text \in ResolveInputs
    /\ resolved = "none"
    /\ args = <<>>
    /\ result = <<>>
    /\ last_response = [s \in Sessions |-> <<>>]

Resolve ==
    /\ call.op = "none"
    /\ resolved' = get_intent(text)
    /\ call' = [op |-> "get_intent", session |-> "a", message |-> text]
    /\ UNCHANGED <<history, context, reply, steps, processed, text, args, result, last_response>>

NextResolve == Resolve

SpecResolve == InitResolve /\ [][NextResolve]_vars

(***************************************************************************)
(* The views: get_conversation_history and get_context                     *)
(***************************************************************************)
\* `return self.conversation_history`: the caller gets the list object of the
\* session itself (shared), not a copy of it
get_conversation_history(hist) == [value |-> hist, shared |-> TRUE]

\* `return self.context`: the caller gets the dict object of the session itself
get_context(ctx) == [value |-> ctx, shared |-> TRUE]

\* what the attribute of the session holds after the caller has changed the
\* object it was given into `changed`
after_caller_write(view, changed) == IF view.shared THEN changed ELSE view.value

\* the caller runs bot.get_conversation_history().append(record)
CallerAppends(s, record) ==
    /\ steps < MaxSteps
    /\ LET view == get_conversation_history(history[s])
       IN  history' = store(history, s, after_caller_write(view, Append(view.value, record)))
    /\ call' = [op |-> "history_view_append", session |-> s, message |-> record.content]
    /\ steps' = steps + 1
    /\ UNCHANGED <<context, reply, processed, text, resolved, args, result, last_response>>

\* the caller runs bot.get_context()[k] = v
CallerSetsItem(s, k, v) ==
    /\ steps < MaxSteps
    /\ LET view == get_context(context[s])
       IN  context' = store(context, s, after_caller_write(view, dict_set(view.value, k, v)))
    /\ call' = [op |-> "context_view_set", session |-> s, message |-> v]
    /\ steps' = steps + 1
    /\ UNCHANGED <<history, reply, processed, text, resolved, args, result, last_response>>

\* a session used by a caller that also writes to what the views return
NextViews ==
    \/ \E u \in TwoSessionUtterances : Process("a", u)
    \/ Reset("a")
    \/ CallerAppends("a", user_turn(U_hello, "greeting"))
    \/ CallerSetsItem("a", "user_name", <<"E","v","e">>)

SpecViews == Init /\ [][NextViews]_vars

(***************************************************************************)
(* MockChatbot.calculate_confidence                                        *)
(***************************************************************************)
\* "thanks" is missing from the high-confidence list
calculate_confidence_thanks_medium(intent) ==
    IF intent = "unknown" THEN 30
    ELSE IF intent \in {"greeting", "goodbye"} THEN 95
    ELSE 85

\* the float results 0.3, 0.95 and 0.85 are given in hundredths
calculate_confidence(intent) ==
    IF intent = "unknown" THEN 30
    ELSE IF intent \in {"greeting", "goodbye", "thanks"} THEN 95
    ELSE 85

\* the labels calculate_confidence is called with: the intents of the
\* program and a label that is none of them
ConfidenceInputs ==
    {"greeting", "goodbye", "thanks", "help", "booking", "status", "cancel",
     "question", "weather", "name_introduction", "name_query", "booking_time",
     "unknown", "smalltalk"}

\* calculate_confidence(intent) is called on session s
Confidence(s, intent) ==
    /\ args' = intent
    /\ result' = calculate_confidence(intent)
    /\ call' = [op |-> "calculate_confidence", session |-> s, message |-> <<>>]
    /\ UNCHANGED <<history, context, reply, steps, processed, text, resolved, last_response>>

\* a session in use, with calculate_confidence called in every state of it
NextConfidence ==
    \/ \E u \in TwoSessionUtterances : Process("a", u)
    \/ Reset("a")
    \/ \E intent \in ConfidenceInputs : Confidence("a", intent)

SpecConfidence == Init /\ [][NextConfidence]_vars

(***************************************************************************)
(* IntentClassifier (src/chatbot/intent_classifier.py)                     *)
(*                                                                         *)
(* A float that is the quotient of two small integers is modelled by the   *)
(* fraction in lowest terms, so that equal floats are equal values.  A     *)
(* call either returns a value or raises an exception.                     *)
(***************************************************************************)
Return(v) == [raised |-> "none", value |-> v]

Raise(e) == [raised |-> e, value |-> <<>>]

RECURSIVE gcd(_, _)
gcd(a, b) == IF b = 0 THEN a ELSE gcd(b, a % b)

\* the float n / d, d > 0
Float(n, d) == [num |-> n \div gcd(n, d), den |-> d \div gcd(n, d)]

\* the literal 0.0
float_zero == Float(0, 1)

\* a / b on integers: ZeroDivisionError when b is 0
py_div(a, b) == IF b = 0 THEN Raise("ZeroDivisionError") ELSE Return(Float(a, b))

\* zip(predictions, ground_truth): as many pairs as the shorter list has elements
py_zip(p, t) ==
    [i \in 1..(IF Len(p) <= Len(t) THEN Len(p) ELSE Len(t)) |-> <<p[i], t[i]>>]

\* sum(1 for ... if ...), the generator given as a sequence of booleans
RECURSIVE sum_ones(_)
sum_ones(flags) ==
    IF flags = <<>> THEN 0
    ELSE (IF Head(flags) THEN 1 ELSE 0) + sum_ones(Tail(flags))

\* the length check is missing
calculate_accuracy_no_length_check(predictions, ground_truth) ==
    IF Len(predictions) = 0 THEN Return(float_zero)
    ELSE LET pairs   == py_zip(predictions, ground_truth)
             correct == sum_ones([i \in DOMAIN pairs |-> pairs[i][1] = pairs[i][2]])
         IN  py_div(correct, Len(predictions))

\* IntentClassifier.calculate_accuracy
calculate_accuracy(predictions, ground_truth) ==
    IF Len(predictions) # Len(ground_truth) THEN Raise("ValueError")
    ELSE IF Len(predictions) = 0 THEN Return(float_zero)
    ELSE LET pairs   == py_zip(predictions, ground_truth)
             correct == sum_ones([i \in DOMAIN pairs |-> pairs[i][1] = pairs[i][2]])
         IN  py_div(correct, Len(predictions))

\* the body of the loop of get_confusion_matrix, for one (pred, true) pair
matrix_count(matrix, pred, truth) ==
    LET m1   == IF truth \notin DOMAIN matrix THEN dict_set(matrix, truth, empty_dict)
                ELSE matrix
        row  == IF pred \notin DOMAIN m1[truth] THEN dict_set(m1[truth], pred, 0)
                ELSE m1[truth]
    IN  dict_set(m1, truth, dict_set(row, pred, row[pred] + 1))

\* the loop of get_confusion_matrix over the pairs still to come
RECURSIVE matrix_loop(_, _)
matrix_loop(matrix, pairs) ==
    IF pairs = <<>> THEN matrix
    ELSE matrix_loop(matrix_count(matrix, Head(pairs)[1], Head(pairs)[2]), Tail(pairs))

\* the rows are keyed by the predicted label and the columns by the true one
get_confusion_matrix_transposed(predictions, ground_truth) ==
    Return(matrix_loop(empty_dict, py_zip(ground_truth, predictions)))

\* IntentClassifier.get_confusion_matrix
get_confusion_matrix(predictions, ground_truth) ==
    Return(matrix_loop(empty_dict, py_zip(predictions, ground_truth)))

\* the results of two divisions as a tuple; an exception of either is raised
py_pair(x, y) ==
    IF x.raised # "none" THEN x
    ELSE IF y.raised # "none" THEN y
    ELSE Return(<<x.value, y.value>>)

\* the precision is divided without the test of its denominator
calculate_precision_recall_unguarded(predictions, ground_truth, intent) ==
    LET pairs == py_zip(predictions, ground_truth)
        true_positive  == sum_ones([i \in DOMAIN pairs |->
                              pairs[i][1] = intent /\ pairs[i][2] = intent])
        false_positive == sum_ones([i \in DOMAIN pairs |->
                              pairs[i][1] = intent /\ pairs[i][2] # intent])
        false_negative == sum_ones([i \in DOMAIN pairs |->
                              pairs[i][1] # intent /\ pairs[i][2] = intent])
        precision == py_div(true_positive, true_positive + false_positive)
        recall    == IF true_positive + false_negative > 0
                     THEN py_div(true_positive, true_positive + false_negative)
                     ELSE Return(float_zero)
    IN  py_pair(precision, recall)

\* IntentClassifier.calculate_precision_recall
calculate_precision_recall(predictions, ground_truth, intent) ==
    LET pairs == py_zip(predictions, ground_truth)
        true_positive  == sum_ones([i \in DOMAIN pairs |->
                              pairs[i][1] = intent /\ pairs[i][2] = intent])
        false_positive == sum_ones([i \in DOMAIN pairs |->
                              pairs[i][1] = intent /\ pairs[i][2] # intent])
        false_negative == sum_ones([i \in DOMAIN pairs |->
                              pairs[i][1] # intent /\ pairs[i][2] = intent])
        precision == IF true_positive + false_positive > 0
                     THEN py_div(true_positive, true_positive + false_positive)
                     ELSE Return(float_zero)
        recall    == IF true_positive + false_negative > 0
                     THEN py_div(true_positive, true_positive + false_negative)
                     ELSE Return(float_zero)
    IN  py_pair(precision, recall)

\* the longest list of labels given to a metric
MaxLen == 2

Labels == {"greeting", "help", "unknown"}

LabelLists == UNION {[1..n -> Labels] : n \in 0..MaxLen}

\* the arguments of one metric call
InitMetrics ==
    /\ history = [s \in Sessions |-> <<>>]
    /\ context = [s \in Sessions |-> empty_dict]
    /\ call = NoCall
    /\ reply = <<>>
    /\ steps = 0
    /\ processed = [s \in Sessions |-> 0]
    /\ text = <<>>
    /\ resolved = "none"
    /\ args \in [predictions : LabelLists, ground_truth : LabelLists, intent : Labels]
    /\ result = <<>>
    /\ last_response = [s \in Sessions |-> <<>>]

\* IntentClassifier.calculate_accuracy(predictions, ground_truth) is called
Accuracy ==
    /\ result' = calculate_accuracy(args.predictions, args.ground_truth)
    /\ call' = [op |-> "calculate_accuracy", session |-> "a", message |-> <<>>]
    /\ UNCHANGED <<history, context, reply, steps, processed, text, resolved, args, last_response>>

\* IntentClassifier.get_confusion_matrix(predictions, ground_truth) is called
ConfusionMatrix ==
    /\ result' = get_confusion_matrix(args.predictions, args.ground_truth)
    /\ call' = [op |-> "get_confusion_matrix", session |-> "a", message |-> <<>>]
    /\ UNCHANGED <<history, context, reply, steps, processed, text, resolved, args, last_response>>

\* IntentClassifier.calculate_precision_recall(predictions, ground_truth, intent) is called
PrecisionRecall ==
    /\ result' = calculate_precision_recall(args.predictions, args.ground_truth,
                                            args.intent)
    /\ call' = [op |-> "calculate_precision_recall", session |-> "a", message |-> <<>>]
    /\ UNCHANGED <<history, context, reply, steps, processed, text, resolved, args, last_response>>

NextMetrics == Accuracy \/ ConfusionMatrix \/ PrecisionRecall

SpecMetrics == InitMetrics /\ [][NextMetrics]_vars

(***************************************************************************)
(* Stand-alone calls of extract_name                                       *)
(***************************************************************************)
\* the trigger phrases, one per pattern
NamePhrases == { <<"M","y"," ","n","a","m","e"," ","i","s">>, <<"I"," ","A","M">>, <<"i","'","m">>, <<"C","a","l","l"," ","m","e">> }

\* what follows a phrase: a word, or nothing
NameWords == { <<"M","i","r","a">>, <<"M","c","D","o","n","a","l","d">>, <<"b","o","b">>, <<>> }

\* a phrase and what follows it, or a word that belongs to no pattern
Clauses == {p \o << " " >> \o w : p \in NamePhrases, w \in NameWords} \cup { <<"h","e","l","l","o">> }

ExtractInputs ==
    UNION {{Join(ws) : ws \in [1..n -> Clauses]} : n \in 0..MaxWords}

InitExtract ==
    /\ history = [s \in Sessions |-> <<>>]
    /\ context = [s \in Sessions |-> empty_dict]
    /\ call = NoCall
    /\ reply = <<>>
    /\ steps = 0
    /\ processed = [s \in Sessions |-> 0]
    /\ text \in ExtractInputs
    /\ resolved = "none"
    /\ args = <<>>
    /\ result = <<>>
    /\ last_response = [s \in Sessions |-> <<>>]

Extract ==
    /\ call.op = "none"
    /\ result' = extract_name(text)
    /\ call' = [op |-> "extract_name", session |-> "a", message |-> text]
    /\ UNCHANGED <<history, context, reply, steps, processed, text, resolved, args, last_response>>

NextExtract == Extract

SpecExtract == InitExtract /\ [][NextExtract]_vars

(***************************************************************************)
(* get_intent called on a session in use                                   *)
(***************************************************************************)
\* the resolver answers with the intent the turn would be recorded with
get_intent_of_turn(ctx, hist, message) ==
    [context |-> ctx, history |-> hist, value |-> turn_intent(ctx, message)]

\* self.get_intent(message) as a method of the session whose attributes are
\* ctx and hist: the attributes after the call and the returned intent
get_intent_of_session(ctx, hist, message) ==
    [context |-> ctx, history |-> hist, value |-> get_intent(message)]

\* get_intent(u) is called on session s
ResolveIn(s, u) ==
    /\ LET r == get_intent_of_session(context[s], history[s], u)
       IN  /\ history' = store(history, s, r.history)
           /\ context' = store(context, s, r.context)
           /\ resolved' = r.value
    /\ text' = u
    /\ call' = [op |-> "get_intent", session |-> s, message |-> u]
    /\ UNCHANGED <<reply, steps, processed, args, result, last_response>>

\* a session in use, with get_intent called in every state of it
NextResolveIn ==
    \/ \E u \in TwoSessionUtterances : Process("a", u)
    \/ Reset("a")
    \/ \E u \in TwoSessionUtterances : ResolveIn("a", u)

SpecResolveIn == Init /\ [][NextResolveIn]_vars

(***************************************************************************)
(* Conversation: the wrapper of a MockChatbot                              *)
(***************************************************************************)
\* Conversation.send (lines 239-242) on the wrapper whose chatbot has the
\* attributes ctx and hist: the chatbot after the call, last_response and
\* the returned reply
Conversation_send(ctx, hist, last, message) ==
    LET r == generate_response(ctx, hist, message)
    IN  [context       |-> r.context,
         history       |-> r.history,
         last_response |-> r.response,
         response      |-> r.response]

\* the chatbot is reset and last_response is left as it is
Conversation_reset_keeps_last_response(ctx, hist, last) ==
    LET r == reset(ctx, hist)
    IN  [context |-> r.context, history |-> r.history, last_response |-> last]

\* Conversation.reset (lines 252-255)
Conversation_reset(ctx, hist, last) ==
    LET r == reset(ctx, hist)
    IN  [context |-> r.context, history |-> r.history, last_response |-> <<>>]

\* the wrapper of session s sends the utterance u
Send(s, u) ==
    /\ steps < MaxSteps
    /\ LET r == Conversation_send(context[s], history[s], last_response[s], u)
       IN  /\ history' = store(history, s, r.history)
           /\ context' = store(context, s, r.context)
           /\ last_response' = store(last_response, s, r.last_response)
           /\ reply' = r.response
    /\ call' = [op |-> "send", session |-> s, message |-> u]
    /\ steps' = steps + 1
    /\ processed' = [processed EXCEPT ![s] = @ + 1]
    /\ UNCHANGED <<text, resolved, args, result>>

\* the wrapper of session s is reset
ResetConversation(s) ==
    /\ steps < MaxSteps
    /\ LET r == Conversation_reset(context[s], history[s], last_response[s])
       IN  /\ history' = store(history, s, r.history)
           /\ context' = store(context, s, r.context)
           /\ last_response' = store(last_response, s, r.last_response)
    /\ call' = [op |-> "Conversation.reset", session |-> s, message |-> <<>>]
    /\ steps' = steps + 1
    /\ processed' = [processed EXCEPT ![s] = 0]
    /\ UNCHANGED <<reply, text, resolved, args, result>>

\* one Conversation, every utterance
NextConversation ==
    \/ \E u \in Utterances : Send("a", u)
    \/ ResetConversation("a")

SpecConversation == Init /\ [][NextConversation]_vars

(***************************************************************************)
(* Properties                                                              *)
(***************************************************************************)
\* the step being taken is a generate_response call on session s
Processing(s) == call'.op = "generate_response" /\ call'.session = s

\* the intent recorded for the last turn of a history
LastIntent(hist) == hist[Len(hist)].intent

\* C1: after N utterances processed by a session since its construction or
\* its last reset, its history has length 2N and the roles alternate,
\* starting with a user record.
C1_HistoryAlternates ==
    \A s \in Sessions :
        /\ Len(history[s]) = 2 * processed[s]
        /\ \A i \in 1..Len(history[s]) :
               history[s][i].role = IF i % 2 = 1 THEN "user" ELSE "assistant"

C1_Witness ==
    /\ processed["a"] = 3
    /\ Len(history["a"]) = 6
    /\ history["a"][5].role = "user"
    /\ history["a"][6].role = "assistant"

\* C2: with booking_started not true, an utterance that resolves to booking
\* sets booking_started and gets the scheduling prompt; a time-like utterance
\* that does not start with a question word, processed right after that turn,
\* is stored verbatim as booking_time, clears booking_started and gets the
\* confirmation.
C2_BookingTwoTurns ==
    [][\A s \in Sessions : Processing(s) =>
        LET u == call'.message
        IN  /\ (~in_booking_mode(context[s]) /\ get_intent(u) = "booking") =>
                   /\ "booking_started" \in DOMAIN context'[s]
                   /\ context'[s]["booking_started"] = TRUE
                   /\ reply' = response_schedule
            /\ ( /\ call.op = "generate_response"
                 /\ call.session = s
                 /\ LastIntent(history[s]) = "booking"
                 /\ reply = response_schedule
                 /\ any_in(time_indicators, str_lower(u))
                 /\ ~is_question(u) ) =>
                   /\ {"booking_time", "booking_started"} \subseteq DOMAIN context'[s]
                   /\ context'[s]["booking_time"] = u
                   /\ context'[s]["booking_started"] = FALSE
                   /\ reply' = response_confirmed
      ]_vars

C2_Witness ==
    /\ Len(history["a"]) = 4
    /\ history["a"][1].content = U_book_a_meeting
    /\ history["a"][1].intent = "booking"
    /\ history["a"][3].content = U_tomorrow_at_2pm
    /\ history["a"][3].intent = "booking_time"
    /\ context["a"]["booking_time"] = U_tomorrow_at_2pm
    /\ context["a"]["booking_started"] = FALSE
    /\ reply = response_confirmed

\* C3: a reset leaves the session with an empty context and an empty history
\* whatever came before, and a reset right after a reset changes nothing.
C3_ResetClears ==
    [][call'.op = "reset" =>
        /\ history'[call'.session] = <<>>
        /\ DOMAIN context'[call'.session] = {}
        /\ (call.op = "reset" /\ call.session = call'.session) =>
               (history' = history /\ context' = context)
      ]_vars

C3_Witness ==
    /\ call.op = "reset"
    /\ steps = 3
    /\ reply = response_nice_to_meet(<<"M","i","r","a">>)
    /\ history["a"] = <<>>
    /\ DOMAIN context["a"] = {}

\* the user turns of a history that stored a name
NameTurns(hist) ==
    {i \in 1..Len(hist) : /\ hist[i].role = "user"
                          /\ hist[i].intent = "name_introduction"
                          /\ extract_name(hist[i].content) # None}

\* C4: a name_query turn replies "Your name is n!", n being the name stored
\* by the latest name-introduction turn since construction or the last reset,
\* or the "I don't know your name yet" reply when there is none; it leaves
\* the context as it was.
C4_NameQuery ==
    [][\A s \in Sessions :
        (Processing(s) /\ LastIntent(history'[s]) = "name_query") =>
            LET turns == NameTurns(history[s])
                last  == CHOOSE i \in turns : \A j \in turns : j <= i
            IN  /\ reply' = IF turns = {} THEN response_no_name
                            ELSE <<"Y","o","u","r"," ","n","a","m","e"," ","i","s"," ">>
                                     \o extract_name(history[s][last].content)
                                     \o <<"!">>
                /\ context'[s] = context[s]
      ]_vars

C4_Witness ==
    /\ Len(history["a"]) = 6
    /\ history["a"][1].intent = "name_introduction"
    /\ history["a"][3].intent \in {"weather", "help", "booking"}
    /\ history["a"][5].intent = "name_query"
    /\ reply = <<"Y","o","u","r"," ","n","a","m","e"," ","i","s"," ","M","i","r","a","!">>

\* an utterance "My name is X", X one word
MyNameIsForm(u) ==
    /\ Len(u) > 11
    /\ SubSeq(u, 1, 11) = <<"M","y"," ","n","a","m","e"," ","i","s"," ">>
    /\ \A i \in 12..Len(u) : IsWordChar(u[i])

\* C5: in every reachable state, processing "My name is X" stores X, first
\* letter capitalized, as user_name and returns a reply that contains X.
C5_NameStoredInEveryState ==
    [][\A s \in Sessions :
        (Processing(s) /\ MyNameIsForm(call'.message)) =>
            LET X == SubSeq(call'.message, 12, Len(call'.message))
            IN  /\ "user_name" \in DOMAIN context'[s]
                /\ context'[s]["user_name"] = [X EXCEPT ![1] = char_upper(X[1])]
                /\ str_in(X, reply')
      ]_vars

\* C6: the calls made on one session leave the history and the context of
\* every other session as they were.
C6_SessionsIsolated ==
    [][\A s \in Sessions :
        s # call'.session => (history'[s] = history[s] /\ context'[s] = context[s])
      ]_vars

C6_Witness ==
    /\ "user_name" \in DOMAIN context["a"]
    /\ processed["b"] > 0
    /\ "user_name" \notin DOMAIN context["b"]

\* C7: every generate_response call returns a non-empty reply, for the empty
\* and the whitespace-only utterance too.
C7_ReplyNotEmpty ==
    call.op = "generate_response" => (Len(reply) > 0 /\ str_strip(reply) # <<>>)

C7_Witness ==
    /\ call.op = "generate_response"
    /\ call.message \in {U_empty, U_blank}
    /\ in_booking_mode(context["a"])
    /\ Len(reply) > 0

\* the closed set of intents
IntentSet ==
    {"greeting", "goodbye", "thanks", "help", "booking", "status", "cancel",
     "question", "weather", "name_introduction", "name_query", "booking_time",
     "unknown"}

\* the order of the rules; the last one always applies
RuleOrder ==
    <<"name_introduction", "name_query", "thanks", "help", "goodbye", "weather",
      "booking", "greeting", "question", "status", "cancel", "unknown">>

RuleHolds(k, m) ==
    CASE k = 1  -> rule_name_introduction(m)
      [] k = 2  -> rule_name_query(m)
      [] k = 3  -> rule_thanks(m)
      [] k = 4  -> rule_help(m)
      [] k = 5  -> rule_goodbye(m)
      [] k = 6  -> rule_weather(m)
      [] k = 7  -> rule_booking(m)
      [] k = 8  -> rule_greeting(m)
      [] k = 9  -> rule_question(m)
      [] k = 10 -> rule_status(m)
      [] k = 11 -> rule_cancel(m)
      [] OTHER  -> TRUE

\* the rules that apply to a text
Matching(m) == {k \in DOMAIN RuleOrder : RuleHolds(k, m)}

\* the text the rules are applied to
Normalized(t) == str_strip(str_lower(t))

\* C8: get_intent returns a member of the closed intent set for every input,
\* the empty string included, unknown when no rule applies, and never
\* booking_time.
C8_ResolveTotal ==
    call.op = "get_intent" =>
        /\ resolved \in IntentSet \ {"booking_time"}
        /\ (Matching(Normalized(text)) = {Len(RuleOrder)} => resolved = "unknown")

C8_Witness ==
    /\ call.op = "get_intent"
    /\ text = <<>>
    /\ resolved = "unknown"

\* C9: get_intent returns the intent of the earliest rule, in the fixed
\* order, that applies to the text.
C9_FirstMatchWins ==
    call.op = "get_intent" =>
        LET rules == Matching(Normalized(text))
            first == CHOOSE k \in rules : \A j \in rules : k <= j
        IN  resolved = RuleOrder[first]

C9_Witness ==
    /\ call.op = "get_intent"
    /\ {6, 7} \subseteq Matching(Normalized(text))
    /\ resolved = "weather"

\* C10: a text that contains "thank" and matches neither name rule resolves
\* to thanks, also when it contains "help"; a text that contains "help",
\* "assist" or "support", neither "thank" nor "appreciate", and matches
\* neither name rule resolves to help, whatever later rules apply to it.
C10_ThanksBeforeHelp ==
    call.op = "get_intent" =>
        LET m     == Normalized(text)
            named == rule_name_introduction(m) \/ rule_name_query(m)
        IN  /\ (str_in(<<"t","h","a","n","k">>, m) /\ ~named) => resolved = "thanks"
            /\ ( /\ \/ str_in(<<"h","e","l","p">>, m)
                    \/ str_in(<<"a","s","s","i","s","t">>, m)
                    \/ str_in(<<"s","u","p","p","o","r","t">>, m)
                 /\ ~str_in(<<"t","h","a","n","k">>, m)
                 /\ ~str_in(<<"a","p","p","r","e","c","i","a","t","e">>, m)
                 /\ ~named ) => resolved = "help"

C10_Witness ==
    /\ call.op = "get_intent"
    /\ str_in(<<"h","e","l","p">>, str_split_first(Normalized(text), <<"t","h","a","n","k","s">>))
    /\ str_in(<<"t","h","a","n","k","s">>, Normalized(text))
    /\ resolved = "thanks"

C10_WitnessHelp ==
    /\ call.op = "get_intent"
    /\ str_in(<<"h","e","l","p">>, Normalized(text))
    /\ Matching(Normalized(text)) \cap {5, 6, 7, 8, 9} # {}
    /\ resolved = "help"

\* str.upper()
str_upper(s) == [i \in 1..Len(s) |-> char_upper(s[i])]

C12_TurnRecords ==
    [][\A s \in Sessions : Processing(s) =>
        LET u      == call'.message
            intent == IF looks_like_time(context[s], u) THEN "booking_time"
                      ELSE get_intent(u)
            h      == history'[s]
        IN  /\ h = history[s] \o
                     << [role |-> "user", content |-> u, intent |-> intent],
                        [role |-> "assistant", content |-> reply', intent |-> intent] >>
            /\ \A i \in 1..Len(h) : i % 2 = 1 => h[i].intent = h[i + 1].intent
      ]_vars

C12_Witness ==
    /\ Len(history["a"]) = 4
    /\ history["a"][3].role = "user"
    /\ history["a"][3].content = U_tomorrow_at_2pm
    /\ history["a"][3].intent = "booking_time"
    /\ get_intent(U_tomorrow_at_2pm) # "booking_time"
    /\ history["a"][4].role = "assistant"
    /\ history["a"][4].intent = "booking_time"
    /\ history["a"][4].content = reply

\* h is an initial part of g
IsPrefix(h, g) == Len(h) <= Len(g) /\ SubSeq(g, 1, Len(h)) = h

\* C13: a generate_response call leaves the records already in the history
\* as they are and in place, and removes no context key; a step that removes
\* history records or context keys of a session is a reset of that session.
C13_AppendOnly ==
    [][\A s \in Sessions :
        /\ Processing(s) =>
               /\ IsPrefix(history[s], history'[s])
               /\ DOMAIN context[s] \subseteq DOMAIN context'[s]
        /\ ( \/ ~IsPrefix(history[s], history'[s])
             \/ ~(DOMAIN context[s] \subseteq DOMAIN context'[s]) ) =>
               (call'.op = "reset" /\ call'.session = s)
      ]_vars

C13_Witness ==
    /\ call.op = "generate_response"
    /\ Len(history["a"]) = 6
    /\ history["a"][3].intent = "booking_time"
    /\ DOMAIN context["a"] = {"user_name", "booking_started", "booking_time"}

\* the characters of the strings of the model
Chars ==
    Range(UpperLetters) \cup Range(LowerLetters) \cup DigitChars
        \cup {" ", "'", "?", "!", ",", ".", "_", "(", ")", "°"}

\* C14: the context of a session is empty at its start, and in every
\* reachable state its keys are among user_name, booking_started and
\* booking_time, user_name being a non-empty string, booking_started a
\* boolean and booking_time a string.
C14_ContextSlots ==
    \A s \in Sessions :
        LET c == context[s]
        IN  /\ steps = 0 => DOMAIN c = {}
            /\ DOMAIN c \subseteq {"user_name", "booking_started", "booking_time"}
            /\ "user_name" \in DOMAIN c =>
                   (c["user_name"] \in Seq(Chars) /\ Len(c["user_name"]) > 0)
            /\ "booking_started" \in DOMAIN c => c["booking_started"] \in BOOLEAN
            /\ "booking_time" \in DOMAIN c => c["booking_time"] \in Seq(Chars)

C14_Witness ==
    /\ DOMAIN context["a"] = {"user_name", "booking_started", "booking_time"}
    /\ context["a"]["user_name"] = <<"B","o","b">>
    /\ context["a"]["booking_started"] = FALSE
    /\ context["a"]["booking_time"] = U_see_attached

\* the session has processed exactly "Hello", "My name is Mira",
\* "What's my name?", in this order, since its construction or last reset
GreetIntroduceAsk(s) ==
    /\ processed[s] = 3
    /\ Len(history[s]) >= 5
    /\ history[s][1].content = U_hello
    /\ history[s][3].content = U_my_name_is_mira
    /\ history[s][5].content = U_whats_my_name

\* C15: after "Hello", "My name is Mira", "What's my name?" on a fresh
\* session the history has 6 records, the context is exactly
\* {user_name: "Mira"} and the third reply contains "Mira".
C15_EndToEnd ==
    (GreetIntroduceAsk("a") /\ call.op = "generate_response") =>
        /\ Len(history["a"]) = 6
        /\ DOMAIN context["a"] = {"user_name"}
        /\ context["a"]["user_name"] = <<"M","i","r","a">>
        /\ history["a"][6].content = reply
        /\ str_in(<<"M","i","r","a">>, reply)

C15_Witness ==
    /\ GreetIntroduceAsk("a")
    /\ call.op = "generate_response"
    /\ reply = <<"Y","o","u","r"," ","n","a","m","e"," ","i","s"," ","M","i","r","a","!">>

\* C16: what history() and context() return is read-only, so the history and
\* the context of a session change only through generate_response and reset.
C16_ViewsReadOnly ==
    [][(history' # history \/ context' # context) =>
           call'.op \in {"generate_response", "reset"}
      ]_vars

\* C17: calculate_confidence is a fixed table, in hundredths: unknown 30,
\* greeting, goodbye and thanks 95, every other label 85; so
\* unknown < 50 <= booking < 90 <= greeting, in every state of the session.
C17_ConfidenceTable ==
    call.op = "calculate_confidence" =>
        /\ args = "unknown" => result = 30
        /\ args \in {"greeting", "goodbye", "thanks"} => result = 95
        /\ args \notin {"unknown", "greeting", "goodbye", "thanks"} => result = 85
        /\ calculate_confidence("unknown") < 50
        /\ 50 <= calculate_confidence("booking")
        /\ calculate_confidence("booking") < 90
        /\ 90 <= calculate_confidence("greeting")

C17_Witness ==
    /\ call.op = "calculate_confidence"
    /\ args = "thanks"
    /\ result = 95
    /\ in_booking_mode(context["a"])
    /\ "user_name" \in DOMAIN context["a"]

\* the positions that hold a (prediction, truth) pair
PairPositions == 1..(IF Len(args.predictions) <= Len(args.ground_truth)
                     THEN Len(args.predictions) ELSE Len(args.ground_truth))

\* the positions at which the prediction is p and the truth is t
Positions(p, t) ==
    {i \in PairPositions : args.predictions[i] = p /\ args.ground_truth[i] = t}

\* the positions at which prediction and truth agree
Agreeing == {i \in PairPositions : args.predictions[i] = args.ground_truth[i]}

\* the float x is the quotient n / d, d > 0
IsQuotient(x, n, d) == x.den > 0 /\ x.num * d = n * x.den

\* C18: calculate_accuracy raises ValueError when the two lists differ in
\* length, returns 0.0 when both are empty, and otherwise returns the number
\* of agreeing positions divided by the length: 1 exactly when all positions
\* agree, 0 exactly when none does.
C18_Accuracy ==
    call.op = "calculate_accuracy" =>
        LET n == Len(args.predictions)
        IN  IF n # Len(args.ground_truth) THEN result = [raised |-> "ValueError", value |-> <<>>]
            ELSE /\ result.raised = "none"
                 /\ n = 0 => result.value = [num |-> 0, den |-> 1]
                 /\ n > 0 =>
                        /\ IsQuotient(result.value, Cardinality(Agreeing), n)
                        /\ result.value = [num |-> 1, den |-> 1] <=> Agreeing = 1..n
                        /\ result.value = [num |-> 0, den |-> 1] <=> Agreeing = {}

C18_Witness ==
    /\ call.op = "calculate_accuracy"
    /\ Len(args.predictions) = 2
    /\ Len(args.ground_truth) = 2
    /\ Cardinality(Agreeing) = 1
    /\ result = [raised |-> "none", value |-> [num |-> 1, den |-> 2]]

C18_WitnessError ==
    /\ call.op = "calculate_accuracy"
    /\ Len(args.predictions) # Len(args.ground_truth)
    /\ result.raised = "ValueError"

\* C19: calculate_precision_recall returns TP/(TP+FP) and TP/(TP+FN), TP, FP
\* and FN counting the positions with prediction and truth both the intent,
\* only the prediction, only the truth; a quotient whose denominator is 0 is
\* 0.0 instead, and no input raises ZeroDivisionError.
C19_PrecisionRecall ==
    call.op = "calculate_precision_recall" =>
        LET others == Labels \ {args.intent}
            TP == Cardinality(Positions(args.intent, args.intent))
            FP == Cardinality(UNION {Positions(args.intent, t) : t \in others})
            FN == Cardinality(UNION {Positions(p, args.intent) : p \in others})
        IN  /\ result.raised = "none"
            /\ Len(result.value) = 2
            /\ IF TP + FP = 0 THEN result.value[1] = [num |-> 0, den |-> 1]
               ELSE IsQuotient(result.value[1], TP, TP + FP)
            /\ IF TP + FN = 0 THEN result.value[2] = [num |-> 0, den |-> 1]
               ELSE IsQuotient(result.value[2], TP, TP + FN)

C19_Witness ==
    /\ call.op = "calculate_precision_recall"
    /\ args.intent = "help"
    /\ args.predictions = <<"help", "greeting">>
    /\ args.ground_truth = <<"help", "help">>
    /\ result.value = << [num |-> 1, den |-> 1], [num |-> 1, den |-> 2] >>

C19_WitnessZero ==
    /\ call.op = "calculate_precision_recall"
    /\ args.intent \notin Range(args.predictions)
    /\ args.intent \in Range(args.ground_truth)
    /\ result.value[1] = [num |-> 0, den |-> 1]

\* the sum of the cells of a matrix whose keys are given
RECURSIVE CellSum(_, _)
CellSum(matrix, keys) ==
    IF keys = {} THEN 0
    ELSE LET k == CHOOSE x \in keys : TRUE
         IN  matrix[k[1]][k[2]] + CellSum(matrix, keys \ {k})

\* C20: get_confusion_matrix returns a mapping whose cell [t][p] is the
\* number of positions with truth t and prediction p; only cells counting at
\* least 1 are present, and the cells add up to the number of pairs.
C20_ConfusionMatrix ==
    call.op = "get_confusion_matrix" =>
        LET matrix == result.value
            keys   == {<<t, p>> \in Labels \X Labels :
                          t \in DOMAIN matrix /\ p \in DOMAIN matrix[t]}
        IN  /\ result.raised = "none"
            /\ DOMAIN matrix \subseteq Labels
            /\ \A t \in DOMAIN matrix :
                   DOMAIN matrix[t] \subseteq Labels /\ DOMAIN matrix[t] # {}
            /\ \A t \in Labels : \A p \in Labels :
                   LET n == Cardinality(Positions(p, t))
                   IN  /\ <<t, p>> \in keys <=> n >= 1
                       /\ <<t, p>> \in keys => matrix[t][p] = n
            /\ CellSum(matrix, keys) = Cardinality(PairPositions)

C20_Witness ==
    /\ call.op = "get_confusion_matrix"
    /\ args.predictions = <<"greeting", "help">>
    /\ args.ground_truth = <<"greeting", "greeting">>
    /\ DOMAIN result.value = {"greeting"}
    /\ result.value["greeting"]["greeting"] = 1
    /\ result.value["greeting"]["help"] = 1


\* the intent recorded for the turn a session has just processed
RecordedIntent(hist) == hist[Len(hist) - 1].intent

\* booking_started is present in the context and true
BookingStarted(ctx) == "booking_started" \in DOMAIN ctx /\ ctx["booking_started"] = TRUE

DayNames ==
    { <<"m","o","n","d","a","y">>, <<"t","u","e","s","d","a","y">>, <<"w","e","d","n","e","s","d","a","y">>, <<"t","h","u","r","s","d","a","y">>, <<"f","r","i","d","a","y">>,
      <<"s","a","t","u","r","d","a","y">>, <<"s","u","n","d","a","y">> }

HourLabels ==
    { <<"1">>, <<"2">>, <<"3">>, <<"4">>, <<"5">>, <<"6">>, <<"7">>, <<"8">>,
      <<"9">>, <<"1","0">>, <<"1","1">>, <<"1","2">> }

\* the time-indicator tokens the specification lists
ListedTimeTokens ==
    DayNames
    \cup { <<"t","o","d","a","y">>, <<"t","o","m","o","r","r","o","w">>, <<"a","m">>, <<"p","m">>, <<"m","o","r","n","i","n","g">>, <<"a","f","t","e","r","n","o","o","n">>,
           <<"e","v","e","n","i","n","g">>, <<"a","t"," ">> }
    \cup { h \o half : h \in HourLabels, half \in { <<"a","m">>, <<"p","m">> } }

\* the tokens generate_response tests: the listed ones and " at"
TestedTimeTokens == ListedTimeTokens \cup { <<" ","a","t">> }

ContainsToken(tokens, u) == \E tok \in tokens : str_in(tok, str_lower(u))

QuestionWords == { <<"w","h","a","t">>, <<"h","o","w">>, <<"w","h","y">>, <<"w","h","e","n">>, <<"w","h","e","r","e">>, <<"w","h","o">> }

StartsWithQuestionWord(u) ==
    \E q \in QuestionWords : str_startswith(str_lower(u), q)

\* the recorded intent of every turn is booking_time exactly when a booking
\* is in progress, the text holds one of the tokens and does not start with
\* a question word, and the resolver's result otherwise
OverrideRule(tokens) ==
    \A s \in Sessions : Processing(s) =>
        LET u == call'.message
        IN  RecordedIntent(history'[s]) =
                IF /\ BookingStarted(context[s])
                   /\ ContainsToken(tokens, u)
                   /\ ~StartsWithQuestionWord(u)
                THEN "booking_time"
                ELSE get_intent(u)

\* C21 as stated: the override happens exactly when booking_started is true,
\* the text contains one of the listed time-indicator tokens (day names,
\* "today", "tomorrow", "am", "pm", "1am".."12pm", "morning", "afternoon",
\* "evening", "at ") and it does not start with a question word; in every
\* other case the recorded intent is the resolver's result.
C21_OverrideListedTokens == [][OverrideRule(ListedTimeTokens)]_vars

\* C21 as amended: the same with " at" among the tokens, the tokens looked
\* for in the lower-cased text and the question word at the start of the
\* lower-cased, untrimmed text.
C21_OverrideTestedTokens == [][OverrideRule(TestedTimeTokens)]_vars

C21_Witness ==
    /\ Len(history["a"]) = 6
    /\ history["a"][1].intent = "booking"
    /\ history["a"][3].content = U_when_tomorrow
    /\ history["a"][3].intent = "question"
    /\ history["a"][5].content = U_see_attached
    /\ history["a"][5].intent = "booking_time"

\* the positions of the user records of a history that belong to a booking
BookingRecords(hist) ==
    {i \in 1..Len(hist) : /\ hist[i].role = "user"
                          /\ hist[i].intent \in {"booking", "booking_time"}}

\* the last of a non-empty set of positions
Last(positions) == CHOOSE i \in positions : \A j \in positions : j <= i

\* C22: in every reachable state booking_started is true exactly when the
\* most recent user record (since construction or the last reset) whose
\* intent is booking or booking_time has intent booking; and every
\* booking_time record is preceded by a booking record with no other
\* booking_time record in between.
C22_BookingFlagFollowsHistory ==
    \A s \in Sessions :
        LET hist == history[s]
            recs == BookingRecords(hist)
        IN  /\ BookingStarted(context[s]) <=>
                   (recs # {} /\ hist[Last(recs)].intent = "booking")
            /\ \A i \in recs : hist[i].intent = "booking_time" =>
                   LET before == {j \in recs : j < i}
                   IN  before # {} /\ hist[Last(before)].intent = "booking"

C22_Witness ==
    /\ Len(history["a"]) = 6
    /\ history["a"][1].intent = "booking"
    /\ history["a"][3].intent = "booking"
    /\ history["a"][5].intent = "booking_time"
    /\ "booking_started" \in DOMAIN context["a"]
    /\ ~BookingStarted(context["a"])

\* C23: once a booking turn has set booking_started, it stays true across
\* later turns with other intents (also a repeated booking request) until a
\* booking_time turn or a reset, and the first later utterance that contains
\* a time indicator and does not start with a question word gets the
\* confirmation reply and sets booking_started to false.
C23_InterruptedBooking ==
    [][\A s \in Sessions : (Processing(s) /\ BookingStarted(context[s])) =>
        LET u == call'.message
        IN  /\ RecordedIntent(history'[s]) # "booking_time" =>
                   BookingStarted(context'[s])
            /\ (ContainsToken(TestedTimeTokens, u) /\ ~StartsWithQuestionWord(u)) =>
                   /\ RecordedIntent(history'[s]) = "booking_time"
                   /\ reply' = response_confirmed
                   /\ "booking_started" \in DOMAIN context'[s]
                   /\ context'[s]["booking_started"] = FALSE
      ]_vars

C23_Witness ==
    /\ Len(history["a"]) = 6
    /\ history["a"][1].content = U_book_a_meeting
    /\ history["a"][3].content = U_whats_the_weather
    /\ history["a"][3].intent = "weather"
    /\ history["a"][5].content = U_tomorrow_at_2pm
    /\ history["a"][5].intent = "booking_time"
    /\ reply = response_confirmed
    /\ context["a"]["booking_started"] = FALSE

\* a booking request repeated while the booking is in progress
C23_WitnessRepeated ==
    /\ Len(history["a"]) = 6
    /\ history["a"][1].intent = "booking"
    /\ history["a"][3].intent = "help"
    /\ history["a"][5].intent = "booking"
    /\ BookingStarted(context["a"])

SameExcept(before, after, slots) ==
    \A k \in (DOMAIN before \cup DOMAIN after) \ slots :
        k \in DOMAIN before /\ k \in DOMAIN after /\ before[k] = after[k]

\* C25: a turn changes only the slots of its intent: none for an intent
\* other than name_introduction, booking and booking_time; at most user_name
\* for name_introduction; at most booking_started for booking (a
\* booking_time stored by an earlier cycle stays in place); booking_time and
\* booking_started, never user_name, for booking_time.
C25_TurnChangesOwnSlots ==
    [][\A s \in Sessions : Processing(s) =>
        LET intent == RecordedIntent(history'[s])
        IN  SameExcept(context[s], context'[s],
                CASE intent = "name_introduction" -> {"user_name"}
                  [] intent = "booking"           -> {"booking_started"}
                  [] intent = "booking_time"      -> {"booking_time", "booking_started"}
                  [] OTHER                        -> {})
      ]_vars

\* a second booking cycle started with the time of the first one stored
C25_Witness ==
    /\ Len(history["a"]) = 6
    /\ history["a"][1].intent = "booking"
    /\ history["a"][3].intent = "booking_time"
    /\ history["a"][5].intent = "booking"
    /\ reply = response_schedule
    /\ context["a"] = [booking_started |-> TRUE, booking_time |-> history["a"][3].content]

\* a booking_time turn with a name stored
C25_WitnessName ==
    /\ Len(history["a"]) = 6
    /\ history["a"][1].intent = "name_introduction"
    /\ history["a"][5].intent = "booking_time"
    /\ DOMAIN context["a"] = {"user_name", "booking_started", "booking_time"}
    /\ context["a"]["user_name"] = <<"M","i","r","a">>

\* C26: when a turn's intent is name_introduction and extract_name finds no
\* name, no slot is written, a user_name stored before is kept, the reply is
\* "Nice to meet you! What's your name?", and the two history records are
\* appended.
C26_IntroductionWithoutName ==
    [][\A s \in Sessions :
        ( /\ Processing(s)
          /\ RecordedIntent(history'[s]) = "name_introduction"
          /\ extract_name(call'.message) = None ) =>
            /\ context'[s] = context[s]
            /\ reply' = <<"N","i","c","e"," ","t","o"," ","m","e","e","t"," ","y","o","u","!"," ","W","h","a","t","'","s"," ","y","o","u","r"," ","n","a","m","e","?">>
            /\ history'[s] = history[s] \o
                   << [role |-> "user", content |-> call'.message,
                       intent |-> "name_introduction"],
                      [role |-> "assistant", content |-> reply',
                       intent |-> "name_introduction"] >>
      ]_vars

C26_Witness ==
    /\ Len(history["a"]) = 4
    /\ history["a"][1].content = U_my_name_is_mira
    /\ history["a"][3].content = U_call_me
    /\ history["a"][3].intent = "name_introduction"
    /\ history["a"][4].content = response_ask_name
    /\ context["a"] = [user_name |-> <<"M","i","r","a">>]

\* the literal parts of the patterns, in the order of the claim
NamePatterns == << <<"m","y"," ","n","a","m","e"," ","i","s"," ">>, <<"i"," ","a","m"," ">>, <<"i","'","m"," ">>, <<"c","a","l","l"," ","m","e"," ">> >>

\* the places of a text where the phrase is found, case ignored, followed by
\* a word character
FoundAt(phrase, t) ==
    {i \in 1..(Len(t) - Len(phrase)) :
        /\ \A j \in 1..Len(phrase) : char_lower(t[i + j - 1]) = phrase[j]
        /\ IsWordChar(t[i + Len(phrase)])}

\* the patterns found somewhere in the text
Found(t) == {k \in DOMAIN NamePatterns : FoundAt(NamePatterns[k], t) # {}}

\* the word of the text that the first pattern found captures at its first
\* place: the word characters from the end of the phrase on, as the text
\* has them
CapturedWord(t) ==
    LET k     == CHOOSE a \in Found(t) : \A b \in Found(t) : a <= b
        at    == CHOOSE i \in FoundAt(NamePatterns[k], t) :
                     \A j \in FoundAt(NamePatterns[k], t) : i <= j
        start == at + Len(NamePatterns[k])
        stop  == CHOOSE e \in start..Len(t) :
                     /\ \A j \in start..e : IsWordChar(t[j])
                     /\ (e = Len(t) \/ ~IsWordChar(t[e + 1]))
    IN  SubSeq(t, start, stop)

\* C27 as stated: extract_name returns the word captured by the first
\* pattern, in the order "my name is", "i am", "i'm", "call me", that
\* matches anywhere in the text, case ignored, with its first letter
\* capitalized and the rest of the word as in the input; nothing when no
\* pattern matches.
C27_RestOfWordUnchanged ==
    call.op = "extract_name" =>
        result = IF Found(text) = {} THEN None
                 ELSE LET w == CapturedWord(text)
                      IN  << char_upper(w[1]) >> \o Tail(w)

\* C27 as amended: the same, with the rest of the word in lower case.
C27_RestOfWordLowered ==
    call.op = "extract_name" =>
        result = IF Found(text) = {} THEN None
                 ELSE LET w == CapturedWord(text)
                      IN  << char_upper(w[1]) >> \o str_lower(Tail(w))

\* a later pattern stands first in the text, and the word has capitals
\* after its first letter
C27_Witness ==
    /\ call.op = "extract_name"
    /\ text = <<"C","a","l","l"," ","m","e"," ","b","o","b"," ","M","y"," ","n","a","m","e"," ","i","s"," ","M","c","D","o","n","a","l","d">>
    /\ result = <<"M","c","d","o","n","a","l","d">>

C27_WitnessNone ==
    /\ call.op = "extract_name"
    /\ text = <<"C","a","l","l"," ","m","e"," "," ","h","e","l","l","o">>
    /\ result = None

\* a newly constructed session (MockChatbot.__init__)
Fresh == [context |-> empty_dict, history |-> <<>>]

\* the utterances a history records, in order
UserTexts(hist) == [i \in 1..(Len(hist) \div 2) |-> hist[2 * i - 1].content]

\* the session that results from processing the utterances one after the
\* other, and the replies it gives
RECURSIVE Replay(_, _)
Replay(session, texts) ==
    IF texts = <<>> THEN session
    ELSE LET r == generate_response(session.context, session.history, Head(texts))
         IN  Replay([context |-> r.context, history |-> r.history], Tail(texts))

\* C28: a session that has been reset behaves like a newly constructed one:
\* whatever happened before the reset, its history, its context and the
\* replies it has given are those a new session has after processing the
\* utterances processed since the reset.
C28_ResetIsFresh ==
    \A s \in Sessions :
        LET new == Replay(Fresh, UserTexts(history[s]))
        IN  /\ history[s] = new.history
            /\ context[s] = new.context
            /\ (call.op = "generate_response" /\ call.session = s) =>
                   reply = new.history[Len(new.history)].content

\* a turn processed after a reset that followed a booking request: the time
\* is not taken for the booking's
C28_Witness ==
    /\ steps = 3
    /\ processed["a"] = 1
    /\ call.op = "generate_response"
    /\ history["a"][1].content = U_tomorrow_at_2pm
    /\ history["a"][1].intent = "unknown"
    /\ context["a"] = empty_dict

\* C29: get_intent neither reads nor changes the session: a call returns
\* the intent it returns for that text on a new session, whatever the
\* context and the history are (also while a booking is in progress), and
\* leaves history and context unchanged.
C29_ResolverIsPure ==
    [][call'.op = "get_intent" =>
        /\ history' = history
        /\ context' = context
        /\ resolved' = get_intent_of_session(Fresh.context, Fresh.history,
                                             call'.message).value
      ]_vars

\* a time resolved while a booking is in progress
C29_Witness ==
    /\ call.op = "get_intent"
    /\ BookingStarted(context["a"])
    /\ text = U_tomorrow_at_2pm
    /\ resolved = "unknown"
    /\ Len(history["a"]) = 2

\* the keywords the claim names, looked for in the normalized text
HasWeatherKeyword(m) ==
    \E w \in { <<"w","e","a","t","h","e","r">>, <<"f","o","r","e","c","a","s","t">>, <<"t","e","m","p","e","r","a","t","u","r","e">>, <<"r","a","i","n">> } : str_in(w, m)

HasBookingKeyword(m) ==
    \E w \in { <<"b","o","o","k">>, <<"s","c","h","e","d","u","l","e">>, <<"a","p","p","o","i","n","t","m","e","n","t">>, <<"m","e","e","t","i","n","g">> } : str_in(w, m)

HasMyName(m) == str_in( <<"m","y"," ","n","a","m","e">>, m)

StartsAsQuestion(m) == \E q \in QuestionWords : str_startswith(m, q)

\* none of the rules 1..n applies
NoRuleUpTo(n, m) == \A k \in 1..n : ~RuleHolds(k, m)

\* C30 as stated: an utterance that starts with a question word resolves to
\* question only if none of the earlier rules matches; with a weather
\* keyword it resolves to weather, with "my name" to name_query, with a
\* booking keyword to booking; with none of the keywords of rules 1 to 8 it
\* resolves to question.
C30_QuestionOrKeyword ==
    (call.op = "get_intent" /\ StartsAsQuestion(Normalized(text))) =>
        LET m == Normalized(text)
        IN  /\ resolved = "question" => NoRuleUpTo(8, m)
            /\ HasWeatherKeyword(m) => resolved = "weather"
            /\ HasMyName(m) => resolved = "name_query"
            /\ HasBookingKeyword(m) => resolved = "booking"
            /\ NoRuleUpTo(8, m) => resolved = "question"

\* C30 as amended: each keyword decides only when no rule before its own
\* applies: weather unless one of rules 1 to 5 applies, name_query unless
\* rule 1 applies, booking unless one of rules 1 to 6 applies.
C30_QuestionAfterEarlierRules ==
    (call.op = "get_intent" /\ StartsAsQuestion(Normalized(text))) =>
        LET m == Normalized(text)
        IN  /\ resolved = "question" <=> NoRuleUpTo(8, m)
            /\ (HasWeatherKeyword(m) /\ NoRuleUpTo(5, m)) => resolved = "weather"
            /\ (HasMyName(m) /\ NoRuleUpTo(1, m)) => resolved = "name_query"
            /\ (HasBookingKeyword(m) /\ NoRuleUpTo(6, m)) => resolved = "booking"

C30_Witness ==
    /\ call.op = "get_intent"
    /\ text = <<"w","h","a","t"," ","w","e","a","t","h","e","r">>
    /\ resolved = "weather"

C30_WitnessQuestion ==
    /\ call.op = "get_intent"
    /\ text = <<"w","h","a","t"," ","x","y","z">>
    /\ resolved = "question"

C30_WitnessEarlierRule ==
    /\ call.op = "get_intent"
    /\ text = <<"w","h","a","t"," ","m","y"," ","n","a","m","e"," ","i","s">>
    /\ resolved = "name_introduction"

\* last_response is empty on a wrapper that is new or was just reset, and
\* otherwise the text of the last record of the history
LastResponseIsLastRecord(s) ==
    IF processed[s] = 0
    THEN last_response[s] = <<>> /\ history[s] = <<>>
    ELSE /\ history[s] # <<>>
         /\ last_response[s] = history[s][Len(history[s])].content
         /\ history[s][Len(history[s])].role = "assistant"

\* send returns the reply it stores in last_response and changes the
\* session as generate_response does; reset changes it as MockChatbot.reset
\* does
WrapperStep(s) ==
    /\ (call'.op = "send" /\ call'.session = s) =>
           LET r == generate_response(context[s], history[s], call'.message)
           IN  /\ history'[s] = r.history
               /\ context'[s] = r.context
               /\ reply' = r.response
               /\ last_response'[s] = reply'
    /\ (call'.op = "Conversation.reset" /\ call'.session = s) =>
           LET r == reset(context[s], history[s])
           IN  /\ history'[s] = r.history
               /\ context'[s] = r.context
               /\ last_response'[s] = <<>>

\* C31: Conversation.last_response is the empty string on a new or
\* just-reset Conversation and otherwise the reply returned by the most
\* recent send, which is the text of the last record of the history; send
\* and reset of the wrapper change the underlying session exactly as
\* generate_response and reset of the chatbot do.
C31_LastResponse ==
    /\ [](\A s \in Sessions : LastResponseIsLastRecord(s))
    /\ [][\A s \in Sessions : WrapperStep(s)]_vars

\* a reply sent after a reset that followed another reply
C31_Witness ==
    /\ steps = 3
    /\ processed["a"] = 1
    /\ call.op = "send"
    /\ call.message = U_whats_my_name
    /\ last_response["a"] = response_no_name
    /\ reply = last_response["a"]
    /\ history["a"][2].content = response_no_name

\* a wrapper just reset after a send
C31_WitnessReset ==
    /\ call.op = "Conversation.reset"
    /\ reply # <<>>
    /\ last_response["a"] = <<>>
    /\ history["a"] = <<>>

=============================================================================
